---- MODULE Spec2Model ----
(***************************************************************************)
(* pydoom: declarative data models.  A model class declares typed          *)
(* attributes, MetaModel.__init_subclass__ compiles them into Field        *)
(* objects once, and BaseModel.__init__ validates keyword values against   *)
(* those Fields.                                                           *)
(*                                                                         *)
(* Python values are records [t, i, s]: t is the runtime type, i the       *)
(* integer payload and s the string payload (a sequence of one-character   *)
(* strings).  A call that may raise returns [exc, val]: exc is "" when it  *)
(* returns normally and the exception's name otherwise.                    *)
(***************************************************************************)
EXTENDS Integers, Sequences, FiniteSets, TLC

\* ------------------------------------------------------------------ bounds
\* Supplied and declared integers range over MinInt..MaxInt.
MaxInt == 12
MinInt == 0 - 1
\* Number of threads constructing an instance concurrently.
NumThreads == 2

\* ------------------------------------------------------------- Python values
PyInt(n) == [t |-> "int", i |-> n, s |-> <<>>]
PyStr(cs) == [t |-> "str", i |-> 0, s |-> cs]
PyNone == [t |-> "none", i |-> 0, s |-> <<>>]
PyEllipsis == [t |-> "ellipsis", i |-> 0, s |-> <<>>]

Ok(v) == [exc |-> "", val |-> v]
Raise(e) == [exc |-> e, val |-> PyNone]

\* isinstance(v, tp) for the declared types int and str.
IsInstance(v, tp) == v.t = tp

\* v == ... (the comparison of lines 85 and 193).
IsEllipsis(v) == v.t = "ellipsis"

Digits == <<"0", "1", "2", "3", "4", "5", "6", "7", "8", "9">>
IsDigit(c) == \E d \in 1..10 : Digits[d] = c
DigitVal(c) == (CHOOSE d \in 1..10 : Digits[d] = c) - 1

RECURSIVE ParseNat(_)
ParseNat(cs) ==
    IF cs = <<>> THEN 0
    ELSE ParseNat(SubSeq(cs, 1, Len(cs) - 1)) * 10 + DigitVal(cs[Len(cs)])

RECURSIVE NatToStr(_)
NatToStr(n) ==
    IF n < 10 THEN <<Digits[n + 1]>>
    ELSE NatToStr(n \div 10) \o <<Digits[(n % 10) + 1]>>

\* str(n) for an int n.
StrOfInt(n) == IF n < 0 THEN <<"-">> \o NatToStr(0 - n) ELSE NatToStr(n)

\* int(cs) for a str cs: an optional sign, then one or more decimal digits.
IntOfStr(cs) ==
    LET signed == cs # <<>> /\ cs[1] \in {"-", "+"}
        body == IF signed THEN Tail(cs) ELSE cs
    IN  IF body # <<>> /\ \A k \in 1..Len(body) : IsDigit(body[k])
        THEN Ok(PyInt(IF signed /\ cs[1] = "-" THEN 0 - ParseNat(body)
                      ELSE ParseNat(body)))
        ELSE Raise("ValueError")

\* self.type(val): the declared type called as a conversion.
Coerce(tp, v) ==
    IF tp = "int" THEN
        CASE v.t = "int" -> Ok(v)
          [] v.t = "str" -> IntOfStr(v.s)
          [] OTHER -> Raise("TypeError")
    ELSE
        CASE v.t = "str" -> Ok(v)
          [] v.t = "int" -> Ok(PyStr(StrOfInt(v.i)))
          [] v.t = "none" -> Ok(PyStr(<<"N", "o", "n", "e">>))
          [] OTHER -> Ok(PyStr(<<"E", "l", "l", "i", "p", "s", "i", "s">>))

\* Code points of the characters the model's strings are made of.
CharCode(c) ==
    CASE IsDigit(c) -> 48 + DigitVal(c)
      [] c = "+" -> 43
      [] c = "-" -> 45
      [] c = "E" -> 69
      [] c = "N" -> 78
      [] c = "a" -> 97
      [] c = "b" -> 98
      [] c = "c" -> 99
      [] c = "e" -> 101
      [] c = "i" -> 105
      [] c = "l" -> 108
      [] c = "n" -> 110
      [] c = "o" -> 111
      [] c = "p" -> 112
      [] c = "s" -> 115
      [] OTHER -> 120

RECURSIVE StrLess(_, _)
StrLess(a, b) ==
    IF b = <<>> THEN FALSE
    ELSE IF a = <<>> THEN TRUE
    ELSE IF CharCode(a[1]) # CharCode(b[1]) THEN CharCode(a[1]) < CharCode(b[1])
    ELSE StrLess(Tail(a), Tail(b))

\* a < b for two values of the same declared type.
PyLess(a, b) == IF a.t = "int" THEN a.i < b.i ELSE StrLess(a.s, b.s)

\* ------------------------------------------------------------------- Field
\* The validators a Field can hold: the synthesized valid_all, the name of a
\* method still to be resolved, or the resolved method.
ValidAll == [kind |-> "valid_all", name |-> ""]
ByName(nm) == [kind |-> "name", name |-> nm]
Method(nm) == [kind |-> "method", name |-> nm]

\* 1e-8, the delta of almost_equal_floats, as its inverse.
DeltaInv == 100000000

\* almost_equal_floats(num/den, target) for an exact fraction, den > 0.
almost_equal_floats(num, den, target) ==
    LET diff == num - target * den
        adiff == IF diff < 0 THEN 0 - diff ELSE diff
    IN  adiff * DeltaInv <= den

\* field(...) / _FieldInfo.__init__: the declaration as given, unchecked.
\* alias and validator are "" where the code holds None.
FieldInfo(default, alias, const, gt, gte, lt, lte, multi, min_len, max_len, regex, validator) ==
    [default |-> default, alias |-> alias, const |-> const, gt |-> gt,
     gte |-> gte, lt |-> lt, lte |-> lte, multi |-> multi,
     min_len |-> min_len, max_len |-> max_len, regex |-> regex,
     validator |-> validator]

\* The first of gt, gte, lt, lte that is declared with a wrong type, if any.
BadBound(tp, ainfo) ==
    \E b \in {"gt", "gte", "lt", "lte"} :
        ainfo[b] # PyNone /\ ~IsInstance(ainfo[b], tp)

\* The attributes Field.__init__ sets before it checks anything.
NewField(aname, atype, ainfo) ==
    [name |-> aname, type |-> atype,
     alias |-> IF ainfo.alias = "" THEN aname ELSE ainfo.alias,
     default |-> ainfo.default, required |-> IsEllipsis(ainfo.default),
     const |-> ainfo.const, gt |-> ainfo.gt, gte |-> ainfo.gte,
     lt |-> ainfo.lt, lte |-> ainfo.lte, multi |-> ainfo.multi,
     min_len |-> ainfo.min_len, max_len |-> ainfo.max_len,
     regex |-> ainfo.regex,
     validator |-> IF ainfo.validator = "" THEN ValidAll
                   ELSE ByName(ainfo.validator)]

\* The checks of Field.__init__ on the Field self: the exception raised, or "".
FieldChecks(self) ==
    IF ~self.required /\ self.default # PyNone
       /\ ~IsInstance(self.default, self.type)
    THEN "TypeError:default"
    ELSE IF self.required /\ self.const THEN "ValueError:const"
    ELSE IF BadBound(self.type, self) THEN "AttributeError"
    ELSE ""

\* Field.__init__ without the check of the default's type.
FieldInitUnchecked(aname, atype, ainfo) ==
    [exc |-> IF IsEllipsis(ainfo.default) /\ ainfo.const THEN "ValueError:const"
             ELSE "",
     field |-> NewField(aname, atype, ainfo)]

\* Field.__init__: [exc, field].
FieldInit(aname, atype, ainfo) ==
    [exc |-> FieldChecks(NewField(aname, atype, ainfo)),
     field |-> NewField(aname, atype, ainfo)]

\* The single checks: [exc, ok].
Verdict(b) == [exc |-> "", ok |-> b]
Fault(e) == [exc |-> e, ok |-> FALSE]

valid_gt(self, val) == Verdict(PyLess(self.gt, val))
valid_gte(self, val) == Verdict(~PyLess(val, self.gte))
\* valid_lt with <= for <.
valid_lt_inclusive(self, val) == Verdict(~PyLess(self.lt, val))
valid_lt(self, val) == Verdict(PyLess(val, self.lt))
valid_lte(self, val) == Verdict(~PyLess(self.lte, val))

\* val / self.multi % 1 is within delta of 0 or 1.
valid_multi(self, val) ==
    IF val.t # "int" THEN Fault("TypeError")
    ELSE IF self.multi.i = 0 THEN Fault("ZeroDivisionError")
    ELSE LET m == IF self.multi.i < 0 THEN 0 - self.multi.i ELSE self.multi.i
             q == IF self.multi.i < 0 THEN 0 - val.i ELSE val.i
             r == q % m
         IN  Verdict(almost_equal_floats(r, m, 0) \/ almost_equal_floats(r, m, 1))

\* len(Any): typing.Any has no length, whatever val is.
valid_minlen(self, val) == Fault("TypeError")

valid_maxlen(self, val) ==
    IF val.t # "str" THEN Fault("TypeError")
    ELSE Verdict(Len(val.s) <= self.max_len.i)

\* re.fullmatch for patterns of literal characters and the wildcard ".".
FullMatch(pat, cs) ==
    /\ Len(pat) = Len(cs)
    /\ \A k \in 1..Len(pat) : pat[k] = "." \/ pat[k] = cs[k]

valid_regex(self, val) ==
    IF val.t # "str" THEN Fault("TypeError")
    ELSE Verdict(FullMatch(self.regex.s, val.s))

\* The checks of valid_all, in the order it runs them.
CheckOrder == <<"gt", "gte", "lt", "lte", "multi", "min_len", "max_len", "regex">>

RunCheck(self, c, val) ==
    CASE c = "gt" -> valid_gt(self, val)
      [] c = "gte" -> valid_gte(self, val)
      [] c = "lt" -> valid_lt(self, val)
      [] c = "lte" -> valid_lte(self, val)
      [] c = "multi" -> valid_multi(self, val)
      [] c = "min_len" -> valid_minlen(self, val)
      [] c = "max_len" -> valid_maxlen(self, val)
      [] OTHER -> valid_regex(self, val)

\* brst &= self.valid_<c>(val), for the verdict r of check c; st is
\* [exc, ok, trace], trace the checks run so far.
AndVerdict(st, c, r) ==
    [exc |-> r.exc, ok |-> st.ok /\ r.ok, trace |-> Append(st.trace, c)]

\* One "if brst and self.<c> is not None: brst &= self.valid_<c>(val)" after
\* another, from the k-th check on.
RECURSIVE ChecksFrom(_, _, _, _)
ChecksFrom(self, val, k, st) ==
    IF k > Len(CheckOrder) \/ st.exc # "" THEN st
    ELSE IF st.ok /\ self[CheckOrder[k]] # PyNone
    THEN ChecksFrom(self, val, k + 1,
                    AndVerdict(st, CheckOrder[k], RunCheck(self, CheckOrder[k], val)))
    ELSE ChecksFrom(self, val, k + 1, st)

\* Field.valid_all: [exc, ok, trace].
valid_all(self, val) ==
    ChecksFrom(self, val, 1, [exc |-> "", ok |-> TRUE, trace |-> <<>>])

\* ------------------------------------------------------------ model classes
\* The class methods a model class defines (the demonstration model's).
ClassMethods == {"vali_size"}

\* Test.vali_size(val): val < 5.
vali_size(val) ==
    IF val.t # "int" THEN Fault("TypeError") ELSE Verdict(val.i < 5)

\* getattr(cls, name, None): [found, callable].
GetAttr(nm) == [found |-> nm \in ClassMethods, callable |-> Method(nm)]

\* The result of validate: [exc, val, self, trace]; self is the Field as the
\* call leaves it (its validator resolved in place).
Raised(e, self, trace) == [exc |-> e, val |-> PyNone, self |-> self, trace |-> trace]
Returned(v, self, trace) == [exc |-> "", val |-> v, self |-> self, trace |-> trace]

\* The exception raised for a value the validator turns down.
Rejected(use_default) ==
    IF use_default THEN "ValueError:default value incorrect"
    ELSE "ValueError:received value incorrect"

\* vr is the validator's answer [exc, ok, trace] for val.
validate_result(self, val, use_default, vr) ==
    IF vr.exc # "" THEN Raised(vr.exc, self, vr.trace)
    ELSE IF ~vr.ok THEN Raised(Rejected(use_default), self, vr.trace)
    ELSE Returned(val, self, vr.trace)

\* A method validator's answer, with the call noted in the trace.
MethodAnswer(nm, r) == [exc |-> r.exc, ok |-> r.ok, trace |-> <<nm>>]

\* The declared constraints checked first, the method only if they pass.
CallValidatorAfterBounds(self, val) ==
    IF self.validator.kind = "valid_all" \/ valid_all(self, val).exc # ""
       \/ ~valid_all(self, val).ok
    THEN valid_all(self, val)
    ELSE MethodAnswer(self.validator.name, vali_size(val))

\* self.validator(val) for a resolved validator: [exc, ok, trace].
CallValidator(self, val) ==
    IF self.validator.kind = "valid_all" THEN valid_all(self, val)
    ELSE MethodAnswer(self.validator.name, vali_size(val))

\* if not self.validator(val): ...
validate_call(self, val, use_default) ==
    validate_result(self, val, use_default, CallValidator(self, val))

\* if not cmtd: raise; self.validator = cmtd.
validate_store(self, cmtd, val, use_default) ==
    IF ~cmtd.found THEN Raised("ValueError:validator not find", self, <<>>)
    ELSE validate_call([self EXCEPT !.validator = cmtd.callable], val, use_default)

\* if isinstance(self.validator, str): cmtd = getattr(cls, self.validator, None).
validate_resolve(self, co, use_default) ==
    IF co.exc # "" THEN Raised(co.exc, self, <<>>)
    ELSE IF self.validator.kind = "name"
    THEN validate_store(self, GetAttr(self.validator.name), co.val, use_default)
    ELSE validate_call(self, co.val, use_default)

\* val = self.type(val).
validate_coerce(self, val, use_default) ==
    validate_resolve(self, Coerce(self.type, val), use_default)

\* if val == ...: the missing sentinel.
validate_missing(self, val, use_default) ==
    IF IsEllipsis(val)
    THEN IF self.required THEN Raised("ValueError:required", self, <<>>)
         ELSE validate_coerce(self, self.default, TRUE)
    ELSE validate_coerce(self, val, use_default)

\* Field.validate(cls, val).
validate(self, val) ==
    validate_missing(self, IF self.const THEN self.default ELSE val, self.const)

\* A dict is a function from its keys; d[k] = v and d.update(e).
EmptyDict == [k \in {} |-> PyNone]
DictSet(d, k, v) == (k :> v) @@ d
DictUpdate(d, e) == e @@ d

\* kw.get(alias): None when the key is absent.
KwGet(kw, alias) == IF alias \in DOMAIN kw THEN kw[alias] ELSE PyNone

\* The value stored under the alias instead.
DataKeyAlias(fval) == fval.alias

\* The key of __datamodel_data__ a Field's value is stored under.
DataKey(fval) == fval.name

\* The keys of __datamodel_fields__, which the extras are filtered against.
FieldKeys(fields) == {fields[j].name : j \in 1..Len(fields)}

\* The dict handed to __datamodel_data__.update when openex is set.
Extras(fields, kw) ==
    [k \in {x \in DOMAIN kw : x \notin FieldKeys(fields)} |-> kw[k]]

\* fields[k] = Field(...), r the result of Field.__init__.
Added(built, r) ==
    IF r.exc # "" THEN [exc |-> r.exc, fields |-> <<>>]
    ELSE [exc |-> "", fields |-> Append(built, r.field)]

\* MetaModel.__init_subclass__: one Field per annotation, in order; the first
\* Field that cannot be built ends the class definition.  [exc, fields].
RECURSIVE BuildFields(_, _, _)
BuildFields(attrs, k, built) ==
    IF k > Len(attrs) THEN [exc |-> "", fields |-> built]
    ELSE LET r == Added(built, FieldInit(attrs[k].name, attrs[k].type, attrs[k].info))
         IN  IF r.exc # "" THEN r ELSE BuildFields(attrs, k + 1, r.fields)

\* self.__datamodel_data__[fval.name] = <r>, r the result of fval.validate;
\* st is [exc, data, fields, log].
Stored(st, k, fval, r) ==
    [exc |-> r.exc,
     data |-> IF r.exc = "" THEN DictSet(st.data, DataKey(fval), r.val)
              ELSE st.data,
     fields |-> [st.fields EXCEPT ![k] = r.self],
     log |-> Append(st.log, [name |-> fval.name, exc |-> r.exc, val |-> r.val,
                             trace |-> r.trace])]

\* The for loop of BaseModel.__init__, from the k-th Field on.
RECURSIVE ValidateFrom(_, _, _)
ValidateFrom(kw, k, st) ==
    IF k > Len(st.fields) \/ st.exc # "" THEN st
    ELSE ValidateFrom(kw, k + 1,
             Stored(st, k, st.fields[k],
                    validate(st.fields[k], KwGet(kw, st.fields[k].alias))))

\* if self.__datamodel_openex__: self.__datamodel_data__.update({...}).
Merged(st, ex) ==
    [exc |-> st.exc, data |-> DictUpdate(st.data, ex), fields |-> st.fields,
     log |-> st.log, extras |-> ex]

PassThrough(st, openex, kw) ==
    Merged(st, IF openex /\ st.exc = "" THEN Extras(st.fields, kw) ELSE EmptyDict)

\* BaseModel.__init__(**kw): [exc, data, fields, log, extras].
BaseModelInit(fields, openex, kw) ==
    PassThrough(ValidateFrom(kw, 1, [exc |-> "", data |-> EmptyDict,
                                     fields |-> fields, log |-> <<>>]),
                openex, kw)

\* ------------------------------------------------------------------- inputs
DeclaredTypes == {"int", "str"}

S_ab == <<"a", "b">>
S_abc == <<"a", "b", "c">>
S_7 == <<"7">>

\* default=...: Ellipsis (required), None, an int, a str.
Defaults == {PyEllipsis, PyNone, PyInt(10), PyStr(S_ab)}
Aliases == {"", "n"}
LtChoices == {PyNone, PyInt(3), PyInt(11)}
MinLenChoices == {PyNone, PyInt(2)}
ValidatorNames == {"", "vali_size", "vali_none"}

\* Declarations with a default, an alias, const, lt, min_len and a validator.
MainInfos ==
    {FieldInfo(d, a, c, PyNone, PyNone, lt, PyNone, PyNone, ml, PyNone, PyNone, v) :
        d \in Defaults, a \in Aliases, c \in BOOLEAN, lt \in LtChoices,
        ml \in MinLenChoices, v \in ValidatorNames}

\* Declarations with multi, max_len and regex.
OtherInfos ==
    {FieldInfo(d, "", FALSE, PyNone, PyNone, PyNone, PyNone, mu, PyNone, xl, rx, "") :
        d \in {PyInt(10), PyStr(S_ab)}, mu \in {PyNone, PyInt(0), PyInt(2)},
        xl \in {PyNone, PyInt(2)}, rx \in {PyNone, PyStr(<<"a", ".">>)}}

\* The demonstration model: name: str = "" (a bare default, wrapped by
\* field(av)) and size: int = field(10, lt=11, validator="vali_size").
NameAttr ==
    [name |-> "name", type |-> "str",
     info |-> FieldInfo(PyStr(<<>>), "", FALSE, PyNone, PyNone, PyNone, PyNone,
                        PyNone, PyNone, PyNone, PyNone, "")]
SizeAttr(alias) ==
    [name |-> "size", type |-> "int",
     info |-> FieldInfo(PyInt(10), alias, FALSE, PyNone, PyNone, PyInt(11),
                        PyNone, PyNone, PyNone, PyNone, PyNone, "vali_size")]

\* Model classes: one attribute "size" of any declaration, or the
\* demonstration model's two attributes; openex either way.
Classes ==
    {[attrs |-> <<[name |-> "size", type |-> tp, info |-> p]>>, openex |-> ox] :
        tp \in DeclaredTypes, p \in MainInfos \cup OtherInfos, ox \in BOOLEAN}
    \cup {[attrs |-> <<NameAttr, SizeAttr(a)>>, openex |-> ox] :
        a \in Aliases, ox \in BOOLEAN}

\* Keyword values a caller supplies.
SuppliedValues ==
    {PyInt(2), PyInt(4), PyInt(MaxInt), PyStr(S_ab), PyStr(S_abc), PyStr(S_7),
     PyNone, PyEllipsis}
Keys == {"size", "n", "name", "favor"}
KeyValues(k) ==
    CASE k = "size" -> SuppliedValues
      [] k = "n" -> {PyInt(4), PyStr(S_ab)}
      [] OTHER -> {PyStr(S_ab)}
KwSet ==
    UNION {{f \in [S -> SuppliedValues] : \A k \in S : f[k] \in KeyValues(k)} :
           S \in SUBSET Keys}

\* -------------------------------------------------------------------- state
VARIABLES
    cls,      \* the model class as declared: [attrs, openex]
    defined,  \* "pending", "ok", or the exception that ended the definition
    fields,   \* cls.__datamodel_fields__, in annotation order
    kw,       \* the keyword values of the last constructor call
    outcome,  \* "none", "ok", or the exception the last call raised
    data,     \* __datamodel_data__ of the instance the last call returned
    log,      \* per Field the last call validated: [name, exc, val, trace]
    extras,   \* the keys and values the last call passed through
    probe,    \* the last direct call of valid_all: [val, exc, ok, trace]
    pc,       \* per thread: where it is in Field.validate
    tval,     \* per thread: its coerced value
    tcmtd,    \* per thread: the local cmtd
    tout      \* per thread: the outcome of its constructor call

callVars == <<kw, outcome, data, log, extras>>
raceVars == <<pc, tval, tcmtd, tout>>
vars == <<cls, defined, fields, kw, outcome, data, log, extras, probe, pc,
          tval, tcmtd, tout>>

Threads == 1..NumThreads
NoProbe == [val |-> PyNone, exc |-> "none", ok |-> FALSE, trace |-> <<>>]
NoCmtd == [found |-> FALSE, callable |-> ValidAll]

NoCall ==
    /\ kw = EmptyDict
    /\ outcome = "none"
    /\ data = EmptyDict
    /\ log = <<>>
    /\ extras = EmptyDict

NoThreads ==
    /\ pc = [t \in Threads |-> "idle"]
    /\ tval = [t \in Threads |-> PyNone]
    /\ tcmtd = [t \in Threads |-> NoCmtd]
    /\ tout = [t \in Threads |-> "none"]

Init ==
    /\ cls \in Classes
    /\ defined = "pending"
    /\ fields = <<>>
    /\ NoCall
    /\ probe = NoProbe
    /\ NoThreads

\* The class as __init_subclass__ leaves it, r the result of the build.
Built(r) ==
    /\ defined' = IF r.exc = "" THEN "ok" ELSE r.exc
    /\ fields' = r.fields

\* class X(BaseModel, openex=...): the class statement runs __init_subclass__.
InitSubclass ==
    /\ defined = "pending"
    /\ Built(BuildFields(cls.attrs, 1, <<>>))
    /\ UNCHANGED <<cls, callVars, probe, raceVars>>

\* The state a constructor call with keyword values k leaves, r its result.
Called(k, r) ==
    /\ kw' = k
    /\ outcome' = IF r.exc = "" THEN "ok" ELSE r.exc
    /\ data' = IF r.exc = "" THEN r.data ELSE EmptyDict
    /\ log' = r.log
    /\ extras' = r.extras
    /\ fields' = r.fields

\* X(**kw): one constructor call, start to finish.
Construct ==
    /\ defined = "ok"
    /\ outcome = "none"
    /\ \E k \in KwSet : Called(k, BaseModelInit(fields, cls.openex, k))
    /\ UNCHANGED <<cls, defined, probe, raceVars>>

\* The caller drops the instance (or the exception); the class and its
\* Fields stay as the call left them.
Discard ==
    /\ outcome # "none"
    /\ kw' = EmptyDict
    /\ outcome' = "none"
    /\ data' = EmptyDict
    /\ log' = <<>>
    /\ extras' = EmptyDict
    /\ UNCHANGED <<cls, defined, fields, probe, raceVars>>

Next == InitSubclass \/ Construct \/ Discard

Spec == Init /\ [][Next]_vars

\* --------------------------------------------------- valid_all on its own
BoundChoices == {PyNone, PyInt(0), PyInt(5), PyInt(10)}

\* int attributes with any of gt, gte, lt, lte declared and no validator.
BoundClasses ==
    {[attrs |-> <<[name |-> "size", type |-> "int",
                   info |-> FieldInfo(PyInt(1), "", FALSE, b1, b2, b3, b4,
                                      PyNone, PyNone, PyNone, PyNone, "")]>>,
      openex |-> FALSE] :
        b1 \in BoundChoices, b2 \in BoundChoices, b3 \in BoundChoices,
        b4 \in BoundChoices}

ProbeValues == {PyInt(n) : n \in MinInt..MaxInt}

InitValidAll ==
    /\ cls \in BoundClasses
    /\ defined = "pending"
    /\ fields = <<>>
    /\ NoCall
    /\ probe = NoProbe
    /\ NoThreads

Probed(v, r) == [val |-> v, exc |-> r.exc, ok |-> r.ok, trace |-> r.trace]

\* fields["size"].valid_all(v), called directly.
ApplyValidAll ==
    /\ defined = "ok"
    /\ \E v \in ProbeValues : probe' = Probed(v, valid_all(fields[1], v))
    /\ UNCHANGED <<cls, defined, fields, callVars, raceVars>>

NextValidAll == InitSubclass \/ ApplyValidAll

SpecValidAll == InitValidAll /\ [][NextValidAll]_vars

\* ------------------------------------- concurrent first use of a validator
\* size: int = field(10, lt=11, validator=<a method name>).
RaceClasses ==
    {[attrs |-> <<[name |-> "size", type |-> "int",
                   info |-> FieldInfo(PyInt(10), "", FALSE, PyNone, PyNone,
                                      PyInt(11), PyNone, PyNone, PyNone,
                                      PyNone, PyNone, v)]>>,
      openex |-> FALSE] : v \in {"vali_size", "vali_none"}}

RaceValues == {PyInt(2), PyInt(4), PyInt(MaxInt)}

\* The class is defined; no constructor call has started.
InitRace ==
    /\ cls \in RaceClasses
    /\ defined = "ok"
    /\ fields = BuildFields(cls.attrs, 1, <<>>).fields
    /\ NoCall
    /\ probe = NoProbe
    /\ NoThreads

Outcome(exc) == IF exc = "" THEN "ok" ELSE exc

\* Thread t calls X(size=v): validate up to val = self.type(val).
Begin(t) ==
    /\ pc[t] = "idle"
    /\ \E v \in RaceValues :
        /\ tval' = [tval EXCEPT ![t] = Coerce(fields[1].type, v).val]
        /\ pc' = [pc EXCEPT ![t] = "test"]
    /\ UNCHANGED <<cls, defined, fields, callVars, probe, tcmtd, tout>>

\* if isinstance(self.validator, str):
Test(t) ==
    /\ pc[t] = "test"
    /\ pc' = [pc EXCEPT ![t] = IF fields[1].validator.kind = "name"
                               THEN "lookup" ELSE "call"]
    /\ UNCHANGED <<cls, defined, fields, callVars, probe, tval, tcmtd, tout>>

\* cmtd = getattr(cls, self.validator, None); if not cmtd: raise.  getattr
\* raises TypeError when the attribute name it is handed is not a str.
Lookup(t) ==
    /\ pc[t] = "lookup"
    /\ IF fields[1].validator.kind # "name"
       THEN /\ tout' = [tout EXCEPT ![t] = "TypeError"]
            /\ pc' = [pc EXCEPT ![t] = "done"]
            /\ UNCHANGED tcmtd
       ELSE IF ~GetAttr(fields[1].validator.name).found
       THEN /\ tout' = [tout EXCEPT ![t] = "ValueError:validator not find"]
            /\ pc' = [pc EXCEPT ![t] = "done"]
            /\ UNCHANGED tcmtd
       ELSE /\ tcmtd' = [tcmtd EXCEPT ![t] = GetAttr(fields[1].validator.name)]
            /\ pc' = [pc EXCEPT ![t] = "store"]
            /\ UNCHANGED tout
    /\ UNCHANGED <<cls, defined, fields, callVars, probe, tval>>

\* self.validator = cmtd
Store(t) ==
    /\ pc[t] = "store"
    /\ fields' = [fields EXCEPT ![1].validator = tcmtd[t].callable]
    /\ pc' = [pc EXCEPT ![t] = "call"]
    /\ UNCHANGED <<cls, defined, callVars, probe, tval, tcmtd, tout>>

\* if not self.validator(val): raise; return val
Call(t) ==
    /\ pc[t] = "call"
    /\ tout' = [tout EXCEPT ![t] =
                   Outcome(validate_call(fields[1], tval[t], FALSE).exc)]
    /\ pc' = [pc EXCEPT ![t] = "done"]
    /\ UNCHANGED <<cls, defined, fields, callVars, probe, tval, tcmtd>>

NextRace == \E t \in Threads : Begin(t) \/ Test(t) \/ Lookup(t) \/ Store(t) \/ Call(t)

SpecRace == InitRace /\ [][NextRace]_vars

\* ------------------------------------------------------------------- claims
Constructed == outcome # "none"
Succeeded == outcome = "ok"
Validated == 1..Len(log)
DeclaredAliases == {fields[j].alias : j \in 1..Len(fields)}

\* C1: construction with the alias of a required field omitted fails with
\* the missing-required-value error, whatever the field's declared type.
C1_MissingRequiredFails ==
    Constructed =>
        \A j \in 1..Len(fields) :
            (fields[j].required /\ fields[j].alias \notin DOMAIN kw) =>
                /\ ~Succeeded
                /\ j \in Validated => log[j].exc = "ValueError:required"

\* C2: for a non-required, non-const field whose alias is omitted, a
\* successfully constructed instance holds the declared default coerced to
\* the declared type.
C2_OmittedGetsDefault ==
    Succeeded =>
        \A j \in Validated :
            (~fields[j].required /\ ~fields[j].const
             /\ fields[j].alias \notin DOMAIN kw) =>
                /\ Coerce(fields[j].type, fields[j].default).exc = ""
                /\ log[j].val = Coerce(fields[j].type, fields[j].default).val

\* C3: the value of a const field in a successfully constructed instance
\* equals the declared default, whatever was supplied.
C3_ConstEqualsDefault ==
    Succeeded =>
        \A j \in Validated :
            fields[j].const => log[j].val = fields[j].default

\* C4: with openex the supplied keys passed through are exactly those that
\* match no declared alias, each with its supplied value; without openex no
\* supplied key that matches no declared alias is in the data.
C4_ExtrasAreNonAliasKeys ==
    Succeeded =>
        IF cls.openex
        THEN /\ DOMAIN extras = DOMAIN kw \ DeclaredAliases
             /\ \A k \in DOMAIN kw \ DeclaredAliases :
                    k \in DOMAIN data /\ data[k] = kw[k]
        ELSE \A k \in DOMAIN kw \ DeclaredAliases : k \notin DOMAIN data

\* C5 as claimed: each field's validated value is stored under its alias.
C5_StoredUnderAlias ==
    Succeeded =>
        \A j \in Validated :
            /\ fields[j].alias \in DOMAIN data
            /\ data[fields[j].alias] = log[j].val

\* C5 as amended: each declared field's validated value is stored under the
\* field's attribute name, whether or not an alias is declared.
C5_StoredUnderName ==
    Succeeded =>
        /\ Len(log) = Len(fields)
        /\ \A j \in Validated :
            /\ fields[j].name \in DOMAIN data
            /\ data[fields[j].name] = log[j].val

\* A successful construction of a model whose field declares an alias, the
\* value supplied under that alias.
C5_Witness ==
    /\ Succeeded
    /\ \E j \in Validated :
        /\ fields[j].alias # fields[j].name
        /\ fields[j].alias \in DOMAIN kw
        /\ fields[j].alias \notin DOMAIN data

\* The case of C6: the j-th field is a non-const int field that declares lt
\* and a method of the class as validator, and a value that converts to int
\* is supplied for it.
C6_Case(j) ==
    /\ fields[j].type = "int"
    /\ ~fields[j].const
    /\ fields[j].lt # PyNone
    /\ fields[j].validator.name \in ClassMethods
    /\ fields[j].alias \in DOMAIN kw
    /\ Coerce("int", kw[fields[j].alias]).exc = ""

\* The supplied value of the j-th field, converted.
C6_Value(j) == Coerce("int", kw[fields[j].alias]).val.i

\* C6 as claimed: a supplied value is accepted only if it satisfies both the
\* bound and the custom validator, and a value that violates the bound is
\* rejected without the custom validator being invoked.
C6_BoundAndValidator ==
    Constructed =>
        \A j \in Validated :
            C6_Case(j) =>
                /\ log[j].exc = "" =>
                    C6_Value(j) < fields[j].lt.i /\ C6_Value(j) < 5
                /\ C6_Value(j) >= fields[j].lt.i =>
                    /\ log[j].exc = "ValueError:received value incorrect"
                    /\ fields[j].validator.name \notin
                           {log[j].trace[k] : k \in 1..Len(log[j].trace)}

\* C6 as amended: with a custom validator declared, the custom validator
\* alone decides; it is invoked for every supplied value and the declared
\* bound is not checked.
C6_ValidatorAlone ==
    Constructed =>
        \A j \in Validated :
            C6_Case(j) =>
                /\ log[j].trace = <<fields[j].validator.name>>
                /\ log[j].exc = "" <=> C6_Value(j) < 5
                /\ log[j].exc = "" => log[j].val = PyInt(C6_Value(j))
                /\ log[j].exc # "" =>
                    log[j].exc = "ValueError:received value incorrect"

\* A supplied value that violates the declared bound and is accepted.
C6_Witness ==
    /\ Succeeded
    /\ \E j \in Validated :
        /\ C6_Case(j)
        /\ C6_Value(j) >= fields[j].lt.i
        /\ data[fields[j].name] = kw[fields[j].alias]

\* Whether the int v satisfies the declared bound c of the Field self.
BoundHolds(self, c, v) ==
    CASE c = "gt" -> v > self.gt.i
      [] c = "gte" -> v >= self.gte.i
      [] c = "lt" -> v < self.lt.i
      [] OTHER -> v <= self.lte.i

\* The declared bounds of self, in the order gt, gte, lt, lte.
DeclaredBounds(self) ==
    SelectSeq(<<"gt", "gte", "lt", "lte">>, LAMBDA c : self[c] # PyNone)

\* C7: valid_all accepts v exactly when every declared bound holds of v, and
\* it runs the declared checks in the order gt, gte, lt, lte up to and
\* including the first that fails.
C7_BoundsConjunction ==
    probe.exc # "none" =>
        LET self == fields[1]
            v == probe.val.i
            decl == DeclaredBounds(self)
            n == Len(probe.trace)
        IN  /\ probe.exc = ""
            /\ probe.ok <=> \A k \in 1..Len(decl) : BoundHolds(self, decl[k], v)
            /\ n <= Len(decl)
            /\ probe.trace = SubSeq(decl, 1, n)
            /\ \A k \in 1..(n - 1) : BoundHolds(self, decl[k], v)
            /\ n < Len(decl) => n > 0 /\ ~BoundHolds(self, decl[n], v)

\* gt=0, lt=10 and the value 10: gt passes, lt fails, the value is rejected.
C7_Witness ==
    /\ probe.exc = ""
    /\ fields[1].gt = PyInt(0)
    /\ fields[1].lt = PyInt(10)
    /\ fields[1].gte = PyNone
    /\ probe.val = PyInt(10)
    /\ ~probe.ok
    /\ probe.trace = <<"gt", "lt">>

\* The j-th attribute declares a default (it is not required).
HasDefault(j) == ~IsEllipsis(cls.attrs[j].info.default)
DefaultOfType(j) == IsInstance(cls.attrs[j].info.default, cls.attrs[j].type)
FirstAttr(j) == \A i \in 1..(j - 1) : HasDefault(i) /\ DefaultOfType(i)

\* C8 as claimed: a built, non-required Field's default is of the declared
\* type, and a non-required default of any other type, None included, fails
\* the build.
C8_DefaultOfDeclaredType ==
    /\ defined = "ok" =>
        \A j \in 1..Len(fields) :
            ~fields[j].required => IsInstance(fields[j].default, fields[j].type)
    /\ defined # "pending" =>
        \A j \in 1..Len(cls.attrs) :
            (HasDefault(j) /\ ~DefaultOfType(j)) => defined # "ok"

\* C8 as amended: a built, non-required Field's default is None or of the
\* declared type, and a non-required default that is neither fails the
\* build with the TypeError of the default check.
C8_DefaultNoneOrOfDeclaredType ==
    /\ defined = "ok" =>
        \A j \in 1..Len(fields) :
            ~fields[j].required =>
                \/ fields[j].default = PyNone
                \/ IsInstance(fields[j].default, fields[j].type)
    /\ defined # "pending" =>
        \A j \in 1..Len(cls.attrs) :
            (HasDefault(j) /\ ~DefaultOfType(j)
             /\ cls.attrs[j].info.default # PyNone) =>
                /\ defined # "ok"
                /\ FirstAttr(j) => defined = "TypeError:default"

\* A class is built whose non-required field has the default None.
C8_Witness ==
    /\ defined = "ok"
    /\ \E j \in 1..Len(fields) :
        ~fields[j].required /\ fields[j].default = PyNone

\* The case of C9: the j-th field is a non-const str field with min_len
\* declared, no other constraint and no custom validator, and a str is
\* supplied for it.
C9_Case(j) ==
    /\ fields[j].type = "str"
    /\ ~fields[j].const
    /\ fields[j].min_len # PyNone
    /\ fields[j].validator = ValidAll
    /\ \A c \in {"gt", "gte", "lt", "lte", "multi", "max_len", "regex"} :
           fields[j][c] = PyNone
    /\ fields[j].alias \in DOMAIN kw
    /\ kw[fields[j].alias].t = "str"

\* C9: the minimum-length check is applied to the supplied value: accepted
\* when its length is at least min_len, rejected with a validation error
\* when it is shorter.
C9_MinLenOfValue ==
    Constructed =>
        \A j \in Validated :
            C9_Case(j) =>
                IF Len(kw[fields[j].alias].s) >= fields[j].min_len.i
                THEN log[j].exc = "" /\ log[j].val = kw[fields[j].alias]
                ELSE log[j].exc = "ValueError:received value incorrect"

\* The constructor calls of the threads in the order ord, one after the
\* other: [self, outs], the Field as the last call leaves it and the
\* outcome of each thread.
RECURSIVE InTurn(_, _, _)
InTurn(ord, k, st) ==
    IF k > Len(ord) THEN st
    ELSE InTurn(ord, k + 1,
            [self |-> validate(st.self, tval[ord[k]]).self,
             outs |-> [st.outs EXCEPT ![ord[k]] =
                          Outcome(validate(st.self, tval[ord[k]]).exc)]])

Orders == {ord \in [1..NumThreads -> Threads] :
              \A a, b \in 1..NumThreads : ord[a] = ord[b] => a = b}
FieldAsBuilt == BuildFields(cls.attrs, 1, <<>>).fields[1]

\* C10: under every interleaving, the concurrent constructions end as they
\* do when run one after the other, and the Field's validator ends as the
\* resolved callable.
C10_ResolutionAtomic ==
    (\A t \in Threads : pc[t] = "done") =>
        \E ord \in Orders :
            LET seq == InTurn(ord, 1, [self |-> FieldAsBuilt,
                                       outs |-> [t \in Threads |-> "none"]])
            IN  /\ tout = seq.outs
                /\ fields[1].validator = seq.self.validator

====
